---- MODULE Spec2Model ----
(***************************************************************************)
(* The library gateway (bff/main.py, bff/auth.py): a Flask application     *)
(* that sits between a browser and the upstream REST API.  A request goes  *)
(* through the decorators of its route (login_required, then               *)
(* validate_body_length) and then through the route handler, which issues  *)
(* upstream calls, stages uploaded photos in the upload directory and      *)
(* builds the response.                                                    *)
(*                                                                         *)
(* Each worker thread of the server is a slot.  A request is served in     *)
(* steps: the steps of one request are sequential, the steps of requests   *)
(* in different slots interleave.  The upstream API is the environment:    *)
(* every call is answered by any reply it can give.                        *)
(***************************************************************************)
EXTENDS Integers, Sequences, FiniteSets, TLC

\* Worker threads serving requests at the same time.
NSlots == 2
\* Field lengths tried on each side of a limit of the validator.
Slack == 1

Slots == 1..NSlots

-----------------------------------------------------------------------------
(* Routes of main.py and their decorators *)

Routes ==
    { "index", "register", "login_route", "logout_route", "get_subscribers", "get_authors",
      "delete_author", "delete_book", "update_author", "add_author", "add_book",
      "upload_book_photo", "add_subscriber", "update_book_form", "update_book" }

\* methods=[...] of @app.route
Methods(route) ==
    CASE route \in {"add_author", "add_book", "add_subscriber", "login_route", "register"} ->
            {"GET", "POST"}
      [] route \in {"update_author", "update_book", "upload_book_photo"} -> {"POST"}
      [] route \in {"delete_author", "delete_book"} -> {"DELETE"}
      [] OTHER -> {"GET"}

\* The routes decorated with @login_required.
LoginRequiredRoutes ==
    { "index", "get_subscribers", "get_authors", "delete_author", "delete_book",
      "update_author", "add_author", "add_book", "add_subscriber",
      "update_book_form", "update_book" }

\* The routes decorated with @validate_body_length.
ValidatedRoutes ==
    { "update_author", "add_author", "add_book", "add_subscriber", "update_book" }

\* max_length of the route's @validate_body_length
MaxLength(route) ==
    IF route \in {"add_book", "update_book"} THEN 1000 ELSE 40

\* field_limits of the route's @validate_body_length (None becomes {})
FieldLimits(route) ==
    IF route \in {"add_book", "update_book"}
    THEN [title |-> 50, details |-> 250]
    ELSE [k \in {} |-> 0]

ALLOWED_EXTENSIONS == {"txt", "pdf", "png", "jpg", "jpeg", "gif"}

-----------------------------------------------------------------------------
(* Requests *)

\* A form field: its key, its value (a token) and the length of the value.
Field(k, v, n) == [key |-> k, val |-> v, len |-> n]

\* request.form.get(key): the value of the first field of that key, or "None".
FormGet(form, k) ==
    IF \E i \in 1..Len(form) : form[i].key = k
    THEN form[CHOOSE i \in 1..Len(form) :
                 /\ form[i].key = k
                 /\ \A j \in 1..(i-1) : form[j].key # k].val
    ELSE "None"

\* The uploaded part 'photo' of a request: "missing" is a request without the
\* part, "" a part without a file (an empty filename), else the filename.
FileNames == {"a.png", "../a.png", "b.exe"}
PhotoParts == {"missing", ""} \cup FileNames

\* werkzeug's secure_filename on the filenames above: path separators become
\* spaces, the words are joined by "_", and dots and underscores are stripped
\* from both ends, so "../a.png" becomes "a.png".
SecureFilename(name) ==
    CASE name = "../a.png" -> "a.png"
      [] OTHER -> name

SecureNames == {SecureFilename(f) : f \in FileNames}

\* os.path.splitext(path)[1], without its dot
Extension(name) ==
    CASE name = "a.png" -> "png"
      [] name = "b.exe" -> "exe"
      [] OTHER -> ""

\* os.path.join(app.config['UPLOAD_FOLDER'], filename)
UploadPath(filename) == [dir |-> "static/uploads", name |-> filename]
\* os.path.join('/path/to/photos', filename)
PhotosPath(filename) == [dir |-> "/path/to/photos", name |-> filename]
\* A photo reference that is no path: "" or the value of a form field.
Ref(value) == [dir |-> "", name |-> value]
NoPath == Ref("")

Paths == {UploadPath(f) : f \in SecureNames} \cup {PhotosPath("a.png")}

\* Upstream entity identifiers as the JSON of a create reply gives them:
\* no "id" key, null, 0 or a positive number.
IdValues == {"missing", "null", "0", "7"}

\* id_author == 0 with resp_data.get("id"): None is not 0.
IdIsZeroNoDefault(id) == id = "0"

\* id_author == 0 (add_author): resp_data.get("id", 0) is 0 for a missing key.
IdIsZero(id) == id \in {"missing", "0"}
\* not id_book (add_book): resp_data.get("id") is None for a missing key.
IdIsFalsy(id) == id \in {"missing", "null", "0"}

\* f"{id}" in the URL of the photo endpoint
IdStr(id) == IF id = "null" THEN "None" ELSE id

-----------------------------------------------------------------------------
(* Responses *)

NoCookie == "-"

\* A response: its status, its kind, the page or the redirect target, the
\* error text it shows, the entity reference it carries ("" in every response
\* the handlers build) and the value of its Set-Cookie.
Response(status, kind, to, error) ==
    [status |-> status, kind |-> kind, to |-> to, error |-> error, ref |-> "",
     cookie |-> NoCookie]

NoResponse == Response(0, "none", "", "")

\* redirect(...)
Redirect(to) == Response(302, "redirect", to, "")
\* render_template(...): a page, with the error it shows
Render(page, error) == Response(200, "html", page, error)
\* jsonify(success=False, error=...), status / jsonify({"error": ...}), status
JsonError(status, error) == Response(status, "json", "", error)
\* jsonify(success=True) / jsonify({"message": ...}), 200
JsonOk == Response(200, "json", "", "")
\* return "text", status
Text(status, error) == Response(status, "text", "", error)
\* An exception no handler catches: Flask answers 500 Internal Server Error.
Unhandled(exc) == Response(500, "unhandled", "", exc)
\* request.files['photo'] without the part: werkzeug's BadRequestKeyError,
\* an HTTPException, which Flask answers as 400 Bad Request.
BadRequest == Response(400, "abort", "", "BadRequestKeyError")

\* The texts a response can carry as its error: the text the upstream API
\* sent ("duplicate"), a text of the gateway's own, or str(err) of an exception.
UpstreamText == "duplicate"
ExceptionTexts ==
    { "UnboundLocalError: resp", "UnboundLocalError: authors", "JSONDecodeError",
      "ConnectionError", "HTTPError", "ValueError: int()", "TypeError: int()",
      "BadRequestKeyError", "FileNotFoundError", "TypeError: view returned None",
      "TypeError: set_cookie" }

-----------------------------------------------------------------------------
(* The upstream API *)

\* A call issued to the upstream API: the operation, the collection it goes
\* to, the entity in its path, the photo reference of its JSON payload and
\* the bytes of its multipart file (the slot they came from, 0 without a file).
Call(op, path, id, photo, bytes) ==
    [op |-> op, path |-> path, id |-> id, photo |-> photo, bytes |-> bytes]

\* Status codes the upstream API answers with.
Statuses == {200, 201, 400, 401, 404, 409, 500}

\* The body of a reply: not JSON, or a JSON object with or without the keys
\* "error" and "message", whose text is "duplicate".
Bodies == {"notjson", "empty", "error", "message"}

\* A call without a photo and without an entity in its path.
Plain(op, path) == Call(op, path, "", NoPath, 0)

\* A reply: a transport error (a requests.RequestException, status 0) or a
\* status with a body; "id" is the "id" key of a JSON body.
Reply(status, body, id) == [status |-> status, body |-> body, id |-> id]
TransportError == Reply(0, "notjson", "missing")

Replies ==
    {TransportError}
    \cup {Reply(st, b, "missing") : st \in Statuses, b \in Bodies}

\* Replies to a create call: a JSON body may carry an "id".
CreateReplies ==
    Replies \cup {Reply(st, "empty", id) : st \in {200, 201}, id \in IdValues}

IsJson(reply) == reply.body # "notjson"

\* response.json().get('error', default)
JsonGetError(reply, default) ==
    IF reply.body = "error" THEN UpstreamText ELSE default

-----------------------------------------------------------------------------
VARIABLES
    cookie,     \* the browser's cookie "token": "" when there is none
    lastAuth,   \* history: "login" after a login set the cookie, "logout" after a
                \* logout ended a session, "logout-anonymous" after any other logout
    files,      \* the files on disk: path -> the slot whose bytes it holds, 0 if absent
    reqs        \* slot -> the request it serves

vars == <<cookie, lastAuth, files, reqs>>

Idle ==
    [ pc |-> "idle", route |-> "", method |-> "", token |-> "", since |-> "none",
      form |-> <<>>, photo |-> "missing", entity |-> "missing", staged |-> NoPath,
      calls |-> <<>>, resp |-> NoResponse ]

Init ==
    /\ cookie = ""
    /\ lastAuth = "none"
    /\ files = [p \in Paths |-> 0]
    /\ reqs = [s \in Slots |-> Idle]

-----------------------------------------------------------------------------
(* The decorators *)

\* Set s[field] of the request in slot s.
Finish(s, response) ==
    reqs' = [reqs EXCEPT ![s].pc = "done", ![s].resp = response]

Goto(s, pc) ==
    reqs' = [reqs EXCEPT ![s].pc = pc]

\* The stage after the auth gate: the validator, when the route has one.
AfterGate(route) ==
    IF route \in ValidatedRoutes THEN "validate" ELSE "handler"

\* The first stage of a route: its outermost decorator.
FirstStage(route) ==
    IF route \in LoginRequiredRoutes THEN "gate" ELSE AfterGate(route)

\* The forms submitted to a route: the fields in the order of the form, with
\* lengths on both sides of the limits of the route's validator.
AuthorForms ==
    { <<Field("firstname", "v", 20), Field("lastname", "v", 20)>>,
      <<Field("firstname", "v", 20), Field("lastname", "v", 21)>> }

SubscriberForms ==
    { <<Field("firstname", "v", 10), Field("lastname", "v", 10), Field("email", "v", 20)>>,
      <<Field("firstname", "v", 10), Field("lastname", "v", 10), Field("email", "v", 21)>> }

BookForms ==
    { <<Field("title", "v", 50), Field("details", "v", 250), Field("author", "3", 1)>>,
      <<Field("title", "v", 51), Field("details", "v", 250), Field("author", "3", 1)>>,
      <<Field("details", "v", 251), Field("title", "v", 51), Field("author", "3", 1)>>,
      <<Field("title", "v", 50), Field("details", "v", 250), Field("author", "x", 700)>>,
      <<Field("title", "v", 50), Field("details", "v", 250), Field("author", "x", 701)>>,
      <<Field("title", "v", 50), Field("details", "v", 250)>> }

Forms(route, method) ==
    CASE method # "POST" -> {<<>>}
      [] route = "add_author" -> AuthorForms
      [] route = "update_author" ->
            AuthorForms \cup
            { <<Field("firstname", "v", 10), Field("lastname", "v", 10),
                Field("existing_photo", "old.png", 7)>> }
      [] route = "add_subscriber" -> SubscriberForms
      [] route = "add_book" -> BookForms
      [] route = "update_book" ->
            BookForms \cup
            { <<Field("title", "v", 50), Field("details", "v", 250), Field("author", "3", 1),
                Field("existing_photo", "old.png", 7)>> }
      [] route \in {"login_route", "register"} ->
            { <<Field("email", "v", 10), Field("password", "v", 10)>> }
      [] OTHER -> {<<>>}

\* The 'photo' parts submitted to a route.
Photos(route, method) ==
    CASE method = "POST" /\ route \in {"add_author", "add_book", "update_author", "update_book"} -> PhotoParts
      [] route = "upload_book_photo" -> {"missing", "", "a.png"}
      [] OTHER -> {"missing"}

\* The request a thread starts to serve: it carries the browser's cookie.
Arrived(route, method, form, photo) ==
    [Idle EXCEPT !.pc = FirstStage(route), !.route = route, !.method = method,
                 !.token = cookie, !.since = lastAuth,
                 !.form = form, !.photo = photo]

\* A request arrives and a free worker thread takes it: any request of the
\* browser, served while no other request is.
Receive(s) ==
    /\ reqs[s].pc = "idle"
    /\ \A t \in Slots \ {s} : reqs[t].pc = "idle"
    /\ \A t \in Slots : s <= t
    /\ \E route \in Routes :
       \E method \in Methods(route) :
       \E form \in Forms(route, method) :
       \E photo \in Photos(route, method) :
          reqs' = [reqs EXCEPT ![s] = Arrived(route, method, form, photo)]
    /\ UNCHANGED <<cookie, lastAuth, files>>

\* The creations with a photo that the threads serve at the same time.
UploadRoutes == {"add_author", "add_book"}
UploadForm(route) ==
    IF route = "add_author"
    THEN <<Field("firstname", "v", 20), Field("lastname", "v", 20)>>
    ELSE <<Field("title", "v", 50), Field("details", "v", 250), Field("author", "3", 1)>>
UploadNames == {"a.png", "../a.png"}

\* A creation with a photo arrives while other requests are being served.
ReceiveUpload(s) ==
    /\ reqs[s].pc = "idle"
    /\ \A t \in Slots : t < s => reqs[t].pc # "idle"
    /\ \E route \in UploadRoutes :
       \E photo \in UploadNames :
          reqs' = [reqs EXCEPT ![s] = Arrived(route, "POST", UploadForm(route), photo)]
    /\ UNCHANGED <<cookie, lastAuth, files>>

\* auth.login_required: the gate lets a request through when it carries a
\* token cookie; the presence of the cookie is the whole check.
Authenticated(token) == token # ""

\* What the gate answers a request without a token: a redirect to the login
\* page, or a 401 on a route of the API style.
AuthRequired == {Redirect("login_route"), JsonError(401, "Authentication required")}

LoginRequired(s) ==
    /\ reqs[s].pc = "gate"
    /\ IF Authenticated(reqs[s].token)
       THEN Goto(s, AfterGate(reqs[s].route))
       ELSE \E response \in AuthRequired : Finish(s, response)
    /\ UNCHANGED <<cookie, lastAuth, files>>

\* f"{key.capitalize()} field too long, should not exceed ... characters."
FieldTooLong(key) ==
    CASE key = "title" -> "Title field too long"
      [] key = "details" -> "Details field too long"
      [] OTHER -> "Field too long"

BodyTooLong == "Request body too long"

\* The loop of validate_body_length's wrapper over data.items(), from the
\* i-th field on with total_length = total: the 400 it returns, or NoResponse
\* when it goes on to call the wrapped function.
RECURSIVE ValidateFrom(_, _, _, _, _)
ValidateFrom(data, i, total, maxLength, fieldLimits) ==
    IF i > Len(data)
    THEN IF total > maxLength THEN JsonError(400, BodyTooLong) ELSE NoResponse
    ELSE IF /\ data[i].key \in DOMAIN fieldLimits
            /\ data[i].len > fieldLimits[data[i].key]
         THEN JsonError(400, FieldTooLong(data[i].key))
         ELSE ValidateFrom(data, i + 1, total + data[i].len, maxLength, fieldLimits)

\* The wrapper with a total check that also rejects a body of exactly
\* max_length characters (>= for >).
RECURSIVE ValidateFromInclusive(_, _, _, _, _)
ValidateFromInclusive(data, i, total, maxLength, fieldLimits) ==
    IF i > Len(data)
    THEN IF total >= maxLength THEN JsonError(400, BodyTooLong) ELSE NoResponse
    ELSE IF /\ data[i].key \in DOMAIN fieldLimits
            /\ data[i].len > fieldLimits[data[i].key]
         THEN JsonError(400, FieldTooLong(data[i].key))
         ELSE ValidateFromInclusive(data, i + 1, total + data[i].len, maxLength, fieldLimits)

ValidateBodyLengthInclusive(method, data, maxLength, fieldLimits) ==
    IF method \in {"POST", "PUT"}
    THEN ValidateFromInclusive(data, 1, 0, maxLength, fieldLimits)
    ELSE NoResponse

\* The wrapper checking only PUT submissions (the routes take POST).
ValidateBodyLengthPutOnly(method, data, maxLength, fieldLimits) ==
    IF method \in {"PUT"}
    THEN ValidateFrom(data, 1, 0, maxLength, fieldLimits)
    ELSE NoResponse

\* wrapper(*args, **kwargs) of validate_body_length(max_length, field_limits)
ValidateBodyLength(method, data, maxLength, fieldLimits) ==
    IF method \in {"POST", "PUT"}
    THEN ValidateFrom(data, 1, 0, maxLength, fieldLimits)
    ELSE NoResponse

Validate(s) ==
    /\ reqs[s].pc = "validate"
    /\ LET r == reqs[s]
           v == ValidateBodyLength(r.method, r.form, MaxLength(r.route), FieldLimits(r.route))
       IN IF v = NoResponse THEN Goto(s, "handler") ELSE Finish(s, v)
    /\ UNCHANGED <<cookie, lastAuth, files>>

\* The response reaches the browser, which applies its Set-Cookie: an empty
\* value with a past expiry removes the cookie.  The thread is free again.
Respond(s) ==
    /\ reqs[s].pc = "done"
    /\ LET c == reqs[s].resp.cookie
       IN /\ cookie' = IF c = NoCookie THEN cookie ELSE c
          /\ lastAuth' = CASE reqs[s].route = "logout_route" ->
                                IF cookie # "" THEN "logout" ELSE "logout-anonymous"
                            [] reqs[s].route # "logout_route" /\ c # NoCookie -> "login"
                            [] OTHER -> lastAuth
    /\ reqs' = [reqs EXCEPT ![s] = Idle]
    /\ UNCHANGED files


-----------------------------------------------------------------------------
(* add_author and add_book: create the entity, then attach its photo *)

\* A client that sends a call once more when it got a transport error or an
\* error status.
IssueRetrying(r, call, reply) ==
    LET entry == [op |-> call.op, path |-> call.path, id |-> call.id,
                  photo |-> call.photo, bytes |-> call.bytes,
                  status |-> reply.status, body |-> reply.body, rid |-> reply.id]
    IN [r EXCEPT !.calls = IF reply.status = 0 \/ reply.status >= 400
                           THEN @ \o <<entry, entry>>
                           ELSE Append(@, entry)]

\* The request issues a call to the upstream API and is answered: the log of
\* the request keeps the call with the status, the body and the "id" of its
\* reply.
Issue(r, call, reply) ==
    [r EXCEPT !.calls = Append(@, [op |-> call.op, path |-> call.path, id |-> call.id,
                                   photo |-> call.photo, bytes |-> call.bytes,
                                   status |-> reply.status, body |-> reply.body,
                                   rid |-> reply.id])]

Done(r, response) == [r EXCEPT !.pc = "done", !.resp = response]

\* photo.save(photo_path): the file at the path now holds the request's bytes.
Save(fs, path, s) == [fs EXCEPT ![path] = s]

\* add_author, after requests.post(f"{API_URL}/authors/new") was answered.
AddAuthorCreated(r, reply) ==
    CASE reply = TransportError ->
            Done(r, JsonError(500, "ConnectionError"))
      [] reply # TransportError /\ ~IsJson(reply) ->
            \* response.json() raises in either branch
            Done(r, JsonError(500, "JSONDecodeError"))
      [] IsJson(reply) /\ reply.status = 201 /\ IdIsZero(reply.id) ->
            Done(r, JsonError(500, JsonGetError(reply, "Failed to add author")))
      [] IsJson(reply) /\ reply.status = 201 /\ ~IdIsZero(reply.id) ->
            IF r.photo # ""
            THEN [r EXCEPT !.pc = "save", !.entity = reply.id]
            ELSE Done([r EXCEPT !.entity = reply.id], Redirect("get_authors"))
      [] OTHER ->
            \* the default of .get() reads resp, which is not yet bound
            Done(r, JsonError(500, "UnboundLocalError: resp"))

AddAuthorCreate(s) ==
    /\ reqs[s].pc = "handler"
    /\ reqs[s].route = "add_author"
    /\ reqs[s].method = "POST"
    /\ IF reqs[s].photo = "missing"
       THEN Finish(s, BadRequest)
       ELSE \E reply \in CreateReplies :
              reqs' = [reqs EXCEPT ![s] =
                         AddAuthorCreated(Issue(reqs[s], Plain("create", "/authors/new"), reply),
                                          reply)]
    /\ UNCHANGED <<cookie, lastAuth, files>>

\* filename = secure_filename(photo.filename); photo.save(photo_path)
StagePhoto(s) ==
    /\ reqs[s].pc = "save"
    /\ LET path == UploadPath(SecureFilename(reqs[s].photo))
       IN /\ files' = Save(files, path, s)
          /\ reqs' = [reqs EXCEPT ![s].pc = "forward", ![s].staged = path]
    /\ UNCHANGED <<cookie, lastAuth>>

\* forward_photo(path, url, extension): the bytes posted are those the file
\* holds when it is opened.
ForwardPhoto(r, fs, endpoint, reply) ==
    Issue(r, Call("attach", endpoint, IdStr(r.entity), r.staged, fs[r.staged]), reply)

\* add_author without the check of the status of the photo call.
AddAuthorAttachedUnchecked(r, reply) ==
    IF reply = TransportError
    THEN Done(r, JsonError(500, "ConnectionError"))
    ELSE Done(r, Redirect("get_authors"))

\* add_author, after forward_photo returned or raised.
AddAuthorAttached(r, reply) ==
    CASE reply = TransportError ->
            Done(r, JsonError(500, "ConnectionError"))
      [] reply # TransportError /\ reply.status = 200 ->
            Done(r, Redirect("get_authors"))
      [] reply # TransportError /\ reply.status # 200 /\ ~IsJson(reply) ->
            Done(r, JsonError(500, "JSONDecodeError"))
      [] OTHER ->
            \* TODO Delete created author...
            Done(r, JsonError(500, JsonGetError(reply, "Failed to add author")))

AddAuthorAttach(s) ==
    /\ reqs[s].pc = "forward"
    /\ reqs[s].route = "add_author"
    /\ \E reply \in Replies :
          reqs' = [reqs EXCEPT ![s] =
                     AddAuthorAttached(ForwardPhoto(reqs[s], files, "/author/photo", reply),
                                       reply)]
    /\ UNCHANGED <<cookie, lastAuth, files>>

\* int(author_id)
IntOf(text) ==
    CASE text = "3" -> "ok"
      [] text = "None" -> "TypeError: int()"
      [] OTHER -> "ValueError: int()"

\* The except clause and the failure exits of add_book's POST path:
\* render_template('add_book_form.html', authors=authors, ...) reads authors,
\* which only the GET path binds.
AddBookFormWithError(error) == Unhandled("UnboundLocalError: authors")

\* add_book, after requests.post(f"{API_URL}/books/new") was answered.
\* response.json() of a body that is not JSON raises a JSONDecodeError, which
\* is a RequestException from requests 2.27 on and a plain ValueError before.
AddBookCreated(r, reply) ==
    CASE reply = TransportError ->
            {Done(r, AddBookFormWithError("ConnectionError"))}
      [] reply # TransportError /\ reply.status >= 400 ->
            \* response.raise_for_status()
            {Done(r, AddBookFormWithError("HTTPError"))}
      [] reply # TransportError /\ reply.status < 400 /\ ~IsJson(reply) ->
            { Done(r, AddBookFormWithError("JSONDecodeError")),
              Done(r, Unhandled("JSONDecodeError")) }
      [] reply # TransportError /\ reply.status < 400 /\ IsJson(reply) /\ IdIsFalsy(reply.id) ->
            {Done(r, AddBookFormWithError("Failed to get book ID from API response"))}
      [] OTHER ->
            IF r.photo # ""
            THEN {[r EXCEPT !.pc = "save", !.entity = reply.id]}
            ELSE {Done([r EXCEPT !.entity = reply.id], Redirect("index"))}

AddBookCreate(s) ==
    /\ reqs[s].pc = "handler"
    /\ reqs[s].route = "add_book"
    /\ reqs[s].method = "POST"
    /\ LET r == reqs[s]
           n == IntOf(FormGet(r.form, "author"))
       IN CASE r.photo = "missing" -> Finish(s, BadRequest)
            [] r.photo # "missing" /\ n # "ok" -> Finish(s, Unhandled(n))
            [] OTHER ->
                 \E reply \in CreateReplies :
                 \E after \in AddBookCreated(Issue(r, Plain("create", "/books/new"), reply),
                                              reply) :
                    reqs' = [reqs EXCEPT ![s] = after]
    /\ UNCHANGED <<cookie, lastAuth, files>>

\* add_book, after forward_photo returned or raised.
AddBookAttached(r, reply) ==
    CASE reply = TransportError ->
            {Done(r, AddBookFormWithError("ConnectionError"))}
      [] reply # TransportError /\ reply.status = 200 ->
            {Done(r, Redirect("index"))}
      [] reply # TransportError /\ reply.status # 200 /\ ~IsJson(reply) ->
            { Done(r, AddBookFormWithError("JSONDecodeError")),
              Done(r, Unhandled("JSONDecodeError")) }
      [] OTHER ->
            {Done(r, AddBookFormWithError(JsonGetError(reply, "Failed to upload photo")))}

AddBookAttach(s) ==
    /\ reqs[s].pc = "forward"
    /\ reqs[s].route = "add_book"
    /\ \E reply \in Replies :
       \E after \in AddBookAttached(ForwardPhoto(reqs[s], files, "/books/photo", reply),
                                     reply) :
          reqs' = [reqs EXCEPT ![s] = after]
    /\ UNCHANGED <<cookie, lastAuth, files>>


-----------------------------------------------------------------------------
(* The other handlers of main.py *)

\* update_author without the check of the status of the PUT.
UpdateAuthorUnchecked(s) ==
    /\ reqs[s].pc = "handler"
    /\ reqs[s].route = "update_author"
    /\ LET r == reqs[s]
           has == r.photo \notin {"missing", ""}
           filename == SecureFilename(r.photo)
           path == UploadPath(filename)
           photo_url == IF has THEN [dir |-> "/uploads", name |-> filename]
                               ELSE Ref(FormGet(r.form, "existing_photo"))
           staged == [r EXCEPT !.staged = IF has THEN path ELSE NoPath]
       IN /\ files' = IF has THEN Save(files, path, s) ELSE files
          /\ \E reply \in Replies :
                LET put == Issue(staged, Call("update", "/authors", "1", photo_url, 0), reply)
                IN reqs' = [reqs EXCEPT ![s] =
                      IF reply = TransportError
                      THEN Done(put, JsonError(500, "ConnectionError"))
                      ELSE Done(put, JsonOk)]
    /\ UNCHANGED <<cookie, lastAuth>>

\* update_author: stage the new photo if there is one, then PUT the author.
UpdateAuthor(s) ==
    /\ reqs[s].pc = "handler"
    /\ reqs[s].route = "update_author"
    /\ LET r == reqs[s]
           \* request.files.get('photo') is None without the part
           has == r.photo \notin {"missing", ""}
           filename == SecureFilename(r.photo)
           path == UploadPath(filename)
           photo_url == IF has THEN [dir |-> "/uploads", name |-> filename]
                               ELSE Ref(FormGet(r.form, "existing_photo"))
           staged == [r EXCEPT !.staged = IF has THEN path ELSE NoPath]
       IN /\ files' = IF has THEN Save(files, path, s) ELSE files
          /\ \E reply \in Replies :
                LET put == Issue(staged, Call("update", "/authors", "1", photo_url, 0), reply)
                IN reqs' = [reqs EXCEPT ![s] =
                      CASE reply = TransportError ->
                              Done(put, JsonError(500, "ConnectionError"))
                        [] reply # TransportError /\ reply.status # 200 ->
                              Done(put, JsonError(400, "Error updating author"))
                        [] OTHER -> Done(put, JsonOk)]
    /\ UNCHANGED <<cookie, lastAuth>>

\* update_book: stage the new photo if there is one, then PUT the book.
UpdateBook(s) ==
    /\ reqs[s].pc = "handler"
    /\ reqs[s].route = "update_book"
    /\ LET r == reqs[s]
           has == r.photo \notin {"missing", ""}
           filename == SecureFilename(r.photo)
           path == UploadPath(filename)
           photo_path == IF has THEN [dir |-> "photos", name |-> filename]
                                ELSE Ref(FormGet(r.form, "existing_photo"))
           n == IntOf(FormGet(r.form, "author"))
           staged == [r EXCEPT !.staged = IF has THEN path ELSE NoPath]
       IN CASE r.photo = "missing" ->
                 \* request.files['photo'] raises inside the try
                 /\ Finish(s, JsonError(500, "BadRequestKeyError"))
                 /\ UNCHANGED files
            [] r.photo # "missing" /\ n # "ok" ->
                 \* the photo is saved before int(author_id) raises
                 /\ files' = IF has THEN Save(files, path, s) ELSE files
                 /\ reqs' = [reqs EXCEPT ![s] = Done(staged, JsonError(500, n))]
            [] OTHER ->
                 /\ files' = IF has THEN Save(files, path, s) ELSE files
                 /\ \E reply \in Replies :
                       LET put == Issue(staged, Call("update", "/books", "1", photo_path, 0),
                                        reply)
                       IN reqs' = [reqs EXCEPT ![s] =
                             CASE reply = TransportError ->
                                     Done(put, JsonError(500, "ConnectionError"))
                               [] reply # TransportError /\ reply.status # 200 ->
                                     Done(put, JsonError(400, "Error updating book"))
                               [] OTHER -> Done(put, Redirect("book_details"))]
    /\ UNCHANGED <<cookie, lastAuth>>

\* add_subscriber, POST
AddSubscriber(s) ==
    /\ reqs[s].pc = "handler"
    /\ reqs[s].route = "add_subscriber"
    /\ reqs[s].method = "POST"
    /\ \E reply \in Replies :
          LET r == Issue(reqs[s], Plain("create", "/subscribers/new"), reply)
          IN reqs' = [reqs EXCEPT ![s] =
                CASE reply = TransportError -> Done(r, JsonError(500, "ConnectionError"))
                  [] reply # TransportError /\ reply.status = 200 ->
                        Done(r, Redirect("get_subscribers"))
                  [] reply # TransportError /\ reply.status # 200 /\ ~IsJson(reply) ->
                        Done(r, JsonError(500, "JSONDecodeError"))
                  [] OTHER ->
                        Done(r, JsonError(500, JsonGetError(reply, "Failed to add subscriber")))]
    /\ UNCHANGED <<cookie, lastAuth, files>>

\* delete_author and delete_book
DeleteEntity(s) ==
    /\ reqs[s].pc = "handler"
    /\ reqs[s].route \in {"delete_author", "delete_book"}
    /\ \E reply \in Replies :
          LET r == Issue(reqs[s],
                         Call("delete",
                              IF reqs[s].route = "delete_author" THEN "/authors" ELSE "/books",
                              "1", NoPath, 0),
                         reply)
          IN reqs' = [reqs EXCEPT ![s] =
                CASE reply = TransportError -> Done(r, JsonError(500, "ConnectionError"))
                  [] reply # TransportError /\ reply.status # 200 -> Done(r, JsonError(400, ""))
                  [] OTHER -> Done(r, JsonOk)]
    /\ UNCHANGED <<cookie, lastAuth, files>>

\* index, get_authors and get_subscribers: list and render.
Listing(s) ==
    /\ reqs[s].pc = "handler"
    /\ reqs[s].route \in {"index", "get_authors", "get_subscribers"}
    /\ \E reply \in Replies :
          LET route == reqs[s].route
              r == Issue(reqs[s],
                         Plain("list", CASE route = "index" -> "/books"
                                         [] route = "get_authors" -> "/authors"
                                         [] OTHER -> "/subscribers"),
                         reply)
          IN reqs' = [reqs EXCEPT ![s] =
                IF route = "get_subscribers"
                THEN CASE reply = TransportError -> Done(r, JsonError(500, "ConnectionError"))
                       [] reply # TransportError /\ ~IsJson(reply) ->
                             Done(r, JsonError(500, "JSONDecodeError"))
                       [] IsJson(reply) /\ reply.status = 200 -> Done(r, Render("subscribers.html", ""))
                       [] OTHER ->
                             Done(r, JsonError(500,
                                     JsonGetError(reply, "Failed to retrieve subscribers")))
                ELSE CASE reply = TransportError -> Done(r, Text(500, "ConnectionError"))
                       [] reply # TransportError /\ reply.status # 200 ->
                             Done(r, Text(400, "Error fetching from API"))
                       [] reply # TransportError /\ reply.status = 200 /\ ~IsJson(reply) ->
                             Done(r, Text(500, "JSONDecodeError"))
                       [] OTHER ->
                             Done(r, Render(IF route = "index" THEN "books.html"
                                                               ELSE "authors.html", ""))]
    /\ UNCHANGED <<cookie, lastAuth, files>>

\* What update_book_form answers to the reply of one of its two GETs: the
\* text it returns, or "" when it goes on.
FetchFailed(reply) ==
    CASE reply = TransportError -> Text(500, "ConnectionError")
      [] reply # TransportError /\ reply.status # 200 -> Text(400, "Error fetching from API")
      [] reply # TransportError /\ reply.status = 200 /\ ~IsJson(reply) ->
            Text(500, "JSONDecodeError")
      [] OTHER -> NoResponse

\* update_book_form: GET the book, then GET the authors.
UpdateBookForm(s) ==
    /\ reqs[s].pc = "handler"
    /\ reqs[s].route = "update_book_form"
    /\ \E reply1 \in Replies, reply2 \in Replies :
          LET r1 == Issue(reqs[s], Call("get", "/books", "1", NoPath, 0), reply1)
              r2 == Issue(r1, Plain("list", "/authors"), reply2)
          IN reqs' = [reqs EXCEPT ![s] =
                CASE FetchFailed(reply1) # NoResponse -> Done(r1, FetchFailed(reply1))
                  [] FetchFailed(reply1) = NoResponse /\ FetchFailed(reply2) # NoResponse ->
                        Done(r2, FetchFailed(reply2))
                  [] OTHER -> Done(r2, Render("update_book_form.html", ""))]
    /\ UNCHANGED <<cookie, lastAuth, files>>

\* The GET of add_author, add_subscriber and add_book: the empty form.  That of
\* add_book fetches the authors first and shows none when it cannot.
AddForm(s) ==
    /\ reqs[s].pc = "handler"
    /\ reqs[s].route \in {"add_author", "add_subscriber", "add_book"}
    /\ reqs[s].method = "GET"
    /\ IF reqs[s].route = "add_book"
       THEN \E reply \in Replies :
               LET r == Issue(reqs[s], Plain("list", "/authors"), reply)
               IN \E response \in
                       IF reply # TransportError /\ reply.status < 400 /\ ~IsJson(reply)
                       THEN {Render("add_book_form.html", ""), Unhandled("JSONDecodeError")}
                       ELSE {Render("add_book_form.html", "")} :
                     reqs' = [reqs EXCEPT ![s] = Done(r, response)]
       ELSE Finish(s, Render(IF reqs[s].route = "add_author"
                             THEN "add_author_form.html" ELSE "add_subscriber.html", ""))
    /\ UNCHANGED <<cookie, lastAuth, files>>

\* upload_book_photo: the route has no decorator.  Whether the directory
\* '/path/to/photos' exists is the host's matter: save() writes the file or
\* raises.  Without a filename the path is the directory itself and it raises.
UploadBookPhoto(s) ==
    /\ reqs[s].pc = "handler"
    /\ reqs[s].route = "upload_book_photo"
    /\ LET r == reqs[s]
           path == PhotosPath(SecureFilename(r.photo))
       IN CASE r.photo = "missing" ->
                 /\ Finish(s, JsonError(400, "No photo provided"))
                 /\ UNCHANGED files
            [] r.photo = "" ->
                 /\ Finish(s, JsonError(500, "FileNotFoundError"))
                 /\ UNCHANGED files
            [] OTHER ->
                 \/ /\ files' = Save(files, path, s)
                    /\ reqs' = [reqs EXCEPT ![s] = Done([r EXCEPT !.staged = path], JsonOk)]
                 \/ /\ Finish(s, JsonError(500, "FileNotFoundError"))
                    /\ UNCHANGED files
    /\ UNCHANGED <<cookie, lastAuth>>


-----------------------------------------------------------------------------
(* auth.py: signup, login and logout *)

\* signup(), after requests.post(f'{API_URL}/signup') was answered: r.json()
\* is read before the status.  Only a RequestException is caught.
SignedUp(reply) ==
    CASE reply = TransportError ->
            {JsonError(500, "ConnectionError")}
      [] reply # TransportError /\ ~IsJson(reply) ->
            {JsonError(500, "JSONDecodeError"), Unhandled("JSONDecodeError")}
      [] IsJson(reply) /\ reply.status = 201 ->
            {Redirect("login_route")}
      [] IsJson(reply) /\ reply.status \in {400, 409} ->
            {Render("sign_up.html", IF reply.body = "message" THEN UpstreamText ELSE "None")}
      [] IsJson(reply) /\ reply.status = 500 ->
            {JsonError(500, IF reply.body = "message" THEN UpstreamText ELSE "None")}
      [] OTHER ->
            {JsonError(reply.status, "An unexpected error occurred")}

\* register
Signup(s) ==
    /\ reqs[s].pc = "handler"
    /\ reqs[s].route = "register"
    /\ IF reqs[s].method = "GET"
       THEN Finish(s, Render("sign_up.html", ""))
       ELSE \E reply \in Replies :
            \E response \in SignedUp(reply) :
               reqs' = [reqs EXCEPT ![s] =
                          Done(Issue(reqs[s], Plain("signup", "/signup"), reply), response)]
    /\ UNCHANGED <<cookie, lastAuth, files>>

\* The token the upstream API issues.
Token == "tok"

\* Replies to the login call: a JSON body may carry a "token".
LoginReplies == Replies \cup {Reply(st, "token", "missing") : st \in Statuses}

\* resp.set_cookie("token", value=..., expires=...)
SetCookie(response, value) == [response EXCEPT !.cookie = value]

\* login() taking a 400 for a success as well as a 200.
LoggedInOnRejection(reply) ==
    CASE reply = TransportError ->
            {JsonError(500, "ConnectionError")}
      [] reply # TransportError /\ reply.status \in {200, 400, 404} /\ ~IsJson(reply) ->
            {JsonError(500, "JSONDecodeError"), Unhandled("JSONDecodeError")}
      [] IsJson(reply) /\ reply.status \in {200, 400} ->
            IF reply.body = "token"
            THEN {SetCookie(Redirect("index"), Token)}
            ELSE {Unhandled("TypeError: set_cookie")}
      [] IsJson(reply) /\ reply.status \in {404} ->
            {Render("login.html", IF reply.body = "message" THEN UpstreamText ELSE "None")}
      [] reply # TransportError /\ reply.status = 500 ->
            {JsonError(500, "Internal server error")}
      [] OTHER ->
            {Unhandled("TypeError: view returned None")}

\* login(), after requests.post(f'{API_URL}/login') was answered.  Only a
\* RequestException is caught; r.json() of a body that is not JSON raises one
\* from requests 2.27 on and a plain ValueError before.
LoggedIn(reply) ==
    CASE reply = TransportError ->
            {JsonError(500, "ConnectionError")}
      [] reply # TransportError /\ reply.status \in {200, 400, 404} /\ ~IsJson(reply) ->
            {JsonError(500, "JSONDecodeError"), Unhandled("JSONDecodeError")}
      [] IsJson(reply) /\ reply.status = 200 ->
            IF reply.body = "token"
            THEN {SetCookie(Redirect("index"), Token)}
            ELSE \* set_cookie with value=None raises a TypeError
                 {Unhandled("TypeError: set_cookie")}
      [] IsJson(reply) /\ reply.status \in {400, 404} ->
            {Render("login.html", IF reply.body = "message" THEN UpstreamText ELSE "None")}
      [] reply # TransportError /\ reply.status = 500 ->
            {JsonError(500, "Internal server error")}
      [] OTHER ->
            \* no branch returns: the view returns None
            {Unhandled("TypeError: view returned None")}

Login(s) ==
    /\ reqs[s].pc = "handler"
    /\ reqs[s].route = "login_route"
    /\ IF reqs[s].method = "GET"
       THEN Finish(s, Render("login.html", ""))
       ELSE \E reply \in LoginReplies :
            \E response \in LoggedIn(reply) :
               reqs' = [reqs EXCEPT ![s] =
                          Done(Issue(reqs[s], Plain("login", "/login"), reply), response)]
    /\ UNCHANGED <<cookie, lastAuth, files>>

\* logout() without its set_cookie: the redirect alone.
LoggedOutKeepingCookie == Redirect("login_route")

\* logout(): resp.set_cookie('token', '', expires=0) on a redirect to /login
LoggedOut == SetCookie(Redirect("login_route"), "")

Logout(s) ==
    /\ reqs[s].pc = "handler"
    /\ reqs[s].route = "logout_route"
    /\ Finish(s, LoggedOut)
    /\ UNCHANGED <<cookie, lastAuth, files>>

-----------------------------------------------------------------------------
Next ==
    \E s \in Slots :
        \/ Receive(s)
        \/ LoginRequired(s)
        \/ Validate(s)
        \/ AddAuthorCreate(s)
        \/ AddBookCreate(s)
        \/ StagePhoto(s)
        \/ AddAuthorAttach(s)
        \/ AddBookAttach(s)
        \/ UpdateAuthor(s)
        \/ UpdateBook(s)
        \/ AddSubscriber(s)
        \/ DeleteEntity(s)
        \/ Listing(s)
        \/ UpdateBookForm(s)
        \/ AddForm(s)
        \/ UploadBookPhoto(s)
        \/ Signup(s)
        \/ Login(s)
        \/ Logout(s)
        \/ Respond(s)

\* Any request of the browser, one at a time.
Spec == Init /\ [][Next]_vars

\* A logged-in browser submits creations with photos, which the threads serve
\* at the same time.
InitUploads ==
    /\ cookie = Token
    /\ lastAuth = "login"
    /\ files = [p \in Paths |-> 0]
    /\ reqs = [s \in Slots |-> Idle]

NextUploads ==
    \E s \in Slots :
        \/ ReceiveUpload(s)
        \/ LoginRequired(s)
        \/ Validate(s)
        \/ AddAuthorCreate(s)
        \/ AddBookCreate(s)
        \/ StagePhoto(s)
        \/ AddAuthorAttach(s)
        \/ AddBookAttach(s)
        \/ Respond(s)

SpecUploads == InitUploads /\ [][NextUploads]_vars

\* The validator alone, on forms whose fields come in any order and whose
\* lengths lie on both sides of every limit.
LensAround(n) == {m \in (n - Slack)..(n + Slack) : m >= 0}

WideFields(route) ==
    IF route \in {"add_book", "update_book"}
    THEN {Field("title", "v", n) : n \in LensAround(50)}
         \cup {Field("details", "v", n) : n \in LensAround(250)}
         \cup {Field("author", "x", n) : n \in LensAround(700)}
    ELSE {Field("firstname", "v", n) : n \in LensAround(20)}
         \cup {Field("lastname", "v", n) : n \in LensAround(20)}

\* request.form.to_dict(): no key twice.
WideForms(route) ==
    LET keys == {f.key : f \in WideFields(route)}
    IN { form \in UNION {[1..n -> WideFields(route)] : n \in 0..Cardinality(keys)} :
           \A i, j \in 1..Len(form) : i # j => form[i].key # form[j].key }

InitValidator ==
    /\ cookie = Token
    /\ lastAuth = "login"
    /\ files = [p \in Paths |-> 0]
    /\ \E route \in ValidatedRoutes :
       \E method \in Methods(route) :
       \E form \in (IF method = "POST" THEN WideForms(route) ELSE {<<>>}) :
          reqs = [s \in Slots |->
                    IF s = 1
                    THEN [Idle EXCEPT !.pc = "validate", !.route = route, !.method = method,
                                      !.token = Token, !.since = "login", !.form = form]
                    ELSE Idle]

NextValidator == \E s \in Slots : Validate(s)

SpecValidator == InitValidator /\ [][NextValidator]_vars


-----------------------------------------------------------------------------
(* Properties *)

Served == {s \in Slots : reqs[s].pc # "idle"}

\* The calls of a request to one operation of the upstream API.
CallsTo(r, op) == {i \in 1..Len(r.calls) : r.calls[i].op = op}

\* A submission to add_author or add_book.
IsCreation(r) == r.route \in UploadRoutes /\ r.method = "POST"

\* A response that reports failure: a 4xx or 5xx.
ReportsFailure(response) == response.status >= 400

\* sum(len(value)) over the fields of a form
RECURSIVE SumLen(_)
SumLen(form) == IF form = <<>> THEN 0 ELSE Head(form).len + SumLen(Tail(form))

\* The keys of the fields longer than their declared limit.
OverLimit(form, route) ==
    { form[i].key : i \in { j \in 1..Len(form) :
          /\ form[j].key \in DOMAIN FieldLimits(route)
          /\ form[j].len > FieldLimits(route)[form[j].key] } }

\* C1: a creation whose create call succeeded with an entity id and whose
\* photo call was answered by a status other than 200 is never answered by
\* the success redirect: its response reports failure.
AttachFailureIsReported ==
    \A s \in Served :
        LET r == reqs[s]
        IN (/\ IsCreation(r)
            /\ r.pc = "done"
            /\ \E i \in CallsTo(r, "attach") : r.calls[i].status # 200)
           => /\ r.resp.kind # "redirect"
              /\ ReportsFailure(r.resp)

\* add_author created the entity 7, its photo call was answered 500 with an
\* error text, and it answered 500 with that text.
AttachFailureSeen ==
    \E s \in Served :
        /\ reqs[s].pc = "done"
        /\ reqs[s].route = "add_author"
        /\ reqs[s].entity = "7"
        /\ Len(reqs[s].calls) = 2
        /\ reqs[s].calls[1].status = 201
        /\ reqs[s].calls[2].op = "attach"
        /\ reqs[s].calls[2].status = 500
        /\ reqs[s].resp = JsonError(500, UpstreamText)

\* C2: a POST to a validated route whose field lengths sum to more than the
\* route's total limit issues no upstream call and stages no file, and the
\* request that reached the validator is answered 400 (a request without a
\* token was already answered by the gate).
OversizedBodyIsRejectedFirst ==
    \A s \in Served :
        LET r == reqs[s]
        IN (/\ r.route \in ValidatedRoutes
            /\ r.method = "POST"
            /\ SumLen(r.form) > MaxLength(r.route))
           => /\ r.calls = <<>>
              /\ r.staged = NoPath
              /\ r.pc \in {"gate", "validate", "done"}
              /\ r.pc = "done" =>
                    IF Authenticated(r.token)
                    THEN r.resp.status = 400 /\ r.resp.kind = "json"
                    ELSE r.resp \in AuthRequired

\* A body of 1001 characters with no field over its limit was answered 400
\* for the total, with no call issued.
OversizedBodySeen ==
    \E s \in Served :
        /\ reqs[s].pc = "done"
        /\ reqs[s].route = "add_book"
        /\ reqs[s].photo = "b.exe"
        /\ SumLen(reqs[s].form) = 1001
        /\ OverLimit(reqs[s].form, reqs[s].route) = {}
        /\ reqs[s].resp = JsonError(400, BodyTooLong)
        /\ reqs[s].calls = <<>>

\* C3: a creation carrying an attachment whose extension is not in
\* ALLOWED_EXTENSIONS writes no file to the upload directory and forwards
\* nothing upstream.
UnsupportedTypeIsRejected ==
    \A s \in Served :
        LET r == reqs[s]
        IN (/\ IsCreation(r)
            /\ r.photo \in FileNames
            /\ Extension(SecureFilename(r.photo)) \notin ALLOWED_EXTENSIONS)
           => /\ r.staged = NoPath
              /\ CallsTo(r, "attach") = {}

\* C4: a creation whose create call was answered 409 with an upstream
\* message ends without a photo call and shows the upstream's message
\* verbatim.
ClientRejectionIsShownVerbatim ==
    \A s \in Served :
        LET r == reqs[s]
        IN (/\ IsCreation(r)
            /\ r.calls # <<>>
            /\ r.calls[1].op = "create"
            /\ r.calls[1].status = 409
            /\ r.calls[1].body \in {"error", "message"})
           => /\ r.pc = "done"
              /\ CallsTo(r, "attach") = {}
              /\ r.resp.error = UpstreamText

LogoutEndsSession ==
    \A s \in Served :
        LET r == reqs[s]
        IN (/\ r.route \in LoginRequiredRoutes
            /\ r.since \in {"logout", "logout-anonymous"})
           => /\ r.pc \in {"gate", "done"}
              /\ r.calls = <<>>
              /\ r.pc = "done" => r.resp \in AuthRequired

\* A logout ended a session, and the next request to index was sent to login.
StaleSessionRefusedSeen ==
    \E s \in Served :
        /\ reqs[s].pc = "done"
        /\ reqs[s].route = "index"
        /\ reqs[s].since = "logout"
        /\ reqs[s].resp = Redirect("login_route")

\* The routes of main.py that create, update or delete an upstream entity or
\* write an uploaded file.
MutatingRoutes ==
    { "delete_author", "delete_book", "update_author", "add_author", "add_book",
      "add_subscriber", "update_book", "upload_book_photo" }

\* C7: a request without a token to a mutating route is answered by the
\* auth-required outcome, with no validation result, no file written and no
\* upstream call.
MutatingRoutesAreGated ==
    \A s \in Served :
        LET r == reqs[s]
        IN (/\ r.route \in MutatingRoutes
            /\ ~Authenticated(r.token)
            /\ r.pc = "done")
           => /\ r.resp \in AuthRequired
              /\ r.staged = NoPath
              /\ r.calls = <<>>

\* C8: after a photo call answered by a status other than 200 the handler
\* either issues a delete for the created entity or reports the failure with
\* the entity's reference.
AttachFailureIsCompensated ==
    \A s \in Served :
        LET r == reqs[s]
        IN (/\ IsCreation(r)
            /\ r.pc = "done"
            /\ \E i \in CallsTo(r, "attach") : r.calls[i].status \notin {0, 200})
           => \/ \E i \in CallsTo(r, "delete") : r.calls[i].id = IdStr(r.entity)
              \/ /\ CallsTo(r, "delete") = {}
                 /\ ReportsFailure(r.resp)
                 /\ r.resp.ref = IdStr(r.entity)

\* C9: on a POST the validator answers 400 for a field over its limit when
\* there is one (whatever the total), else 400 for the total when the sum
\* of the lengths is greater than the limit, else lets the handler run.
ValidatorMatchesReference ==
    \A s \in Served :
        LET r == reqs[s]
            over == OverLimit(r.form, r.route)
        IN (/\ r.route \in ValidatedRoutes
            /\ r.method \in {"POST", "PUT"}
            /\ r.pc # "validate")
           => CASE over # {} ->
                     /\ r.pc = "done"
                     /\ \E k \in over : r.resp = JsonError(400, FieldTooLong(k))
                [] over = {} /\ SumLen(r.form) > MaxLength(r.route) ->
                     /\ r.pc = "done"
                     /\ r.resp = JsonError(400, BodyTooLong)
                [] OTHER -> r.pc = "handler"

\* A form over the total limit with a field over its own limit was answered
\* for the field.
FieldBeforeTotalSeen ==
    \E s \in Served :
        /\ reqs[s].pc = "done"
        /\ reqs[s].route = "add_book"
        /\ SumLen(reqs[s].form) > MaxLength(reqs[s].route)
        /\ OverLimit(reqs[s].form, reqs[s].route) = {"details"}
        /\ reqs[s].form[1].key = "title"
        /\ reqs[s].resp = JsonError(400, FieldTooLong("details"))

\* C10: requests served at the same time never overwrite each other's
\* staged file and never forward another request's bytes.
UploadsDoNotCollide ==
    \A s \in Served :
        LET r == reqs[s]
        IN /\ r.pc = "forward" => files[r.staged] = s
           /\ \A i \in CallsTo(r, "attach") : r.calls[i].bytes = s

-----------------------------------------------------------------------------
\* A submission of one of the three create handlers.
CreateRoutes == {"add_author", "add_book", "add_subscriber"}

IsCreateSubmission(r) == r.route \in CreateRoutes /\ r.method = "POST"

\* C11: a create call answered 200 or 201 (with a JSON body and, where the
\* handler reads one, an id) is a success for every create handler: the
\* request goes on to the photo call or ends in the success redirect, never
\* in an error answer.
CreateSuccessIsAccepted ==
    \A s \in Served :
        LET r == reqs[s]
        IN (/\ IsCreateSubmission(r)
            /\ \E i \in CallsTo(r, "create") :
                  /\ r.calls[i].status \in {200, 201}
                  /\ r.calls[i].body # "notjson"
                  /\ r.route # "add_subscriber" => r.calls[i].rid = "7")
           => \/ r.pc \in {"save", "forward"}
              \/ CallsTo(r, "attach") # {}
              \/ r.pc = "done" /\ r.resp.kind = "redirect"

\* C12: one create submission issues at most one create call and at most one
\* photo call, whatever the upstream API answers.
NoCallIsRetried ==
    \A s \in Served :
        LET r == reqs[s]
        IN IsCreateSubmission(r) =>
              /\ Cardinality(CallsTo(r, "create")) <= 1
              /\ Cardinality(CallsTo(r, "attach")) <= 1
              /\ Len(r.calls) <= 2

\* A create submission has ended after its photo call met a transport error.
FailedCallNotRetriedSeen ==
    \E s \in Served :
        LET r == reqs[s]
        IN /\ IsCreateSubmission(r)
           /\ r.pc = "done"
           /\ Cardinality(CallsTo(r, "create")) = 1
           /\ \E i \in CallsTo(r, "attach") : r.calls[i].status = 0

UpdateRoutes == {"update_author", "update_book"}

\* The request passed the gate and the validator, and its handler has ended.
HandlerEnded(r) ==
    /\ r.pc = "done"
    /\ Authenticated(r.token)
    /\ ValidateBodyLength(r.method, r.form, MaxLength(r.route), FieldLimits(r.route))
          = NoResponse

\* C13: an update without an attachment (no 'photo' part, or a part without
\* a file) and with well-formed fields stages no file and issues the update
\* call with the submitted existing_photo as its photo reference.
UpdateWithoutAttachmentGoesOn ==
    \A s \in Served :
        LET r == reqs[s]
        IN (/\ r.route \in UpdateRoutes
            /\ HandlerEnded(r)
            /\ r.photo \in {"missing", ""}
            /\ r.route = "update_book" => IntOf(FormGet(r.form, "author")) = "ok")
           => /\ r.staged = NoPath
              /\ \E i \in CallsTo(r, "update") :
                    r.calls[i].photo = Ref(FormGet(r.form, "existing_photo"))

\* The exceptions that are none of the known error kinds (validation,
\* authentication, an upstream status, an unreachable upstream).
UnknownExceptionTexts == ExceptionTexts \ {"ConnectionError", "HTTPError"}

\* C14: the body a handler returns never carries the text of an exception
\* that is none of the known error kinds: a handler that catches one answers
\* 500 with a generic message.
UnknownExceptionIsNotLeaked ==
    \A s \in Served :
        LET r == reqs[s]
        IN (r.pc = "done" /\ r.resp.kind \in {"json", "text", "html"})
           => r.resp.error \notin UnknownExceptionTexts

\* The request is a login POST whose login call the upstream API answered 200.
LoginSucceeded(r) ==
    /\ r.route = "login_route"
    /\ r.method = "POST"
    /\ \E i \in CallsTo(r, "login") : r.calls[i].status = 200

\* C15: when a response reaches the browser, it sets the token cookie to a
\* non-empty value only if it answers a login POST whose login call returned
\* 200; the response to any other login POST sets no cookie and leaves the
\* browser's cookie as it was; only the response of logout sets the empty
\* cookie; and the browser's cookie changes in no other step.
CookieSetOnlyByLoginAndLogout ==
    [][ /\ \A s \in Slots :
             (reqs[s].pc = "done" /\ reqs'[s].pc = "idle") =>
                LET r == reqs[s]
                IN /\ r.resp.cookie \notin {NoCookie, ""} => LoginSucceeded(r)
                   /\ (r.route = "login_route" /\ ~LoginSucceeded(r)) =>
                         (r.resp.cookie = NoCookie /\ cookie' = cookie)
                   /\ r.resp.cookie = "" <=> r.route = "logout_route"
                   /\ cookie' # cookie => cookie' = r.resp.cookie
        /\ cookie' # cookie =>
             \E s \in Slots : reqs[s].pc = "done" /\ reqs'[s].pc = "idle"
      ]_vars

\* A logged-in browser has posted a login that the upstream API rejected.
FailedLoginWithSessionSeen ==
    \E s \in Served :
        LET r == reqs[s]
        IN /\ r.route = "login_route"
           /\ r.method = "POST"
           /\ r.pc = "done"
           /\ \E i \in CallsTo(r, "login") : r.calls[i].status \in {0, 400, 404, 500}
           /\ cookie = Token

\* The collection an update route PUTs to.
ItemPath(route) == IF route = "update_author" THEN "/authors" ELSE "/books"

\* C16: an update issues at most one upstream call, the PUT of the item, and
\* no create, photo or delete call; its response is a success only if the
\* PUT was answered 200.
UpdateIsOnePut ==
    \A s \in Served :
        LET r == reqs[s]
        IN r.route \in UpdateRoutes =>
              /\ Len(r.calls) <= 1
              /\ \A i \in 1..Len(r.calls) :
                    /\ r.calls[i].op = "update"
                    /\ r.calls[i].path = ItemPath(r.route)
                    /\ r.calls[i].id = "1"
              /\ (/\ r.pc = "done"
                  /\ ~ReportsFailure(r.resp)
                  /\ r.resp \notin AuthRequired)
                 => \E i \in CallsTo(r, "update") : r.calls[i].status = 200

\* An update with a new photo has ended in failure after the upstream API
\* refused its PUT.
RefusedUpdateSeen ==
    \E s \in Served :
        LET r == reqs[s]
        IN /\ r.route \in UpdateRoutes
           /\ r.pc = "done"
           /\ r.staged # NoPath
           /\ Len(r.calls) = 1
           /\ r.calls[1].status \notin {0, 200}
           /\ ReportsFailure(r.resp)

\* The add_book submission has met one of the failures of its POST path: a
\* create answered without an id, a photo call answered by a status other
\* than 200, or a create or photo call that raised a RequestException.
AddBookFailed(r) ==
    /\ r.route = "add_book"
    /\ r.method = "POST"
    /\ r.pc = "done"
    /\ \/ \E i \in CallsTo(r, "create") :
              \/ r.calls[i].status = 0
              \/ r.calls[i].status >= 400
              \/ /\ r.calls[i].status \in {200, 201}
                 /\ r.calls[i].body # "notjson"
                 /\ IdIsFalsy(r.calls[i].rid)
       \/ \E i \in CallsTo(r, "attach") :
              \/ r.calls[i].status = 0
              \/ r.calls[i].status # 200 /\ r.calls[i].body # "notjson"

\* C17: every failure exit of add_book's POST path answers with the add_book
\* form and its error message, never with an unhandled exception.
AddBookFailureShowsForm ==
    \A s \in Served :
        AddBookFailed(reqs[s]) =>
            /\ reqs[s].resp.kind = "html"
            /\ reqs[s].resp.to = "add_book_form.html"

\* C18: whatever status the upstream API answers the login call with, the
\* login handler returns a response: it never ends without one.
LoginAlwaysReturns ==
    \A s \in Served :
        LET r == reqs[s]
        IN (/\ r.route = "login_route"
            /\ r.method = "POST"
            /\ r.pc = "done"
            /\ \E i \in CallsTo(r, "login") : r.calls[i].status \in Statuses)
           => r.resp # Unhandled("TypeError: view returned None")

====
